---- MODULE Spec2Model ----
(***************************************************************************)
(* Model of BankAccount (src/bank_account.py): the balance, the observer   *)
(* list, and the operations deposit, withdraw, update_balance, attach,     *)
(* detach and notify.                                                      *)
(*                                                                         *)
(* Numbers.  A Python value passed as an amount or held as the balance is  *)
(* a record [k, hi, lo]:                                                   *)
(*   k = "fin"  the finite double  hi * 2^53 dollars + lo / 8 dollars      *)
(*   k = "nan"  float('nan')                                               *)
(*   k = "inf"  float('inf') when hi = 1, float('-inf') when hi = -1       *)
(*   k = "str"  a non-numeric value (a str)                                *)
(* lo counts eighths of a dollar, which binary floating point holds        *)
(* exactly; hi counts multiples of 2^53 dollars, where the spacing of      *)
(* doubles exceeds an eighth and additions round.  Python ints inside the  *)
(* window convert to the same doubles, so int and float arguments are not  *)
(* distinguished.                                                          *)
(***************************************************************************)
EXTENDS Integers, Sequences, FiniteSets

VARIABLES account_number, balance, observers, init_balance, ledger,
          ntx, last, notified, delivered

vars == <<account_number, balance, observers, init_balance, ledger,
          ntx, last, notified, delivered>>

\* ------------------------------------------------------------------ bounds
\* largest |lo| (eighths of a dollar) a balance may take in the model
MaxLo == 170000
\* number of calls that reach update_balance in one behaviour
MaxTx == 2
\* longest observer list
MaxObservers == 2

\* ------------------------------------------------------- program constants
\* BankAccount.LOW_BALANCE_LEVEL = 50.0, in cents
LOW_BALANCE_LEVEL == 5000
\* BankAccount.LARGE_TRANSACTION_THRESHOLD = 9999.99, in cents
LARGE_TRANSACTION_THRESHOLD == 999999

\* ------------------------------------------------------------ float values
Fin(h, l) == [k |-> "fin", hi |-> h, lo |-> l]
NaN == [k |-> "nan", hi |-> 0, lo |-> 0]
PosInf == [k |-> "inf", hi |-> 1, lo |-> 0]
StrValue == [k |-> "str", hi |-> 0, lo |-> 0]
Zero == Fin(0, 0)
Dollars(n) == Fin(0, 8 * n)
\* 2^53 dollars = 9007199254740992.0
TwoTo53 == Fin(1, 0)

\* isinstance(x, (int, float))
IsNumeric(x) == x.k \in {"fin", "nan", "inf"}

\* the part of the double range the model holds
InWindow(x) ==
    x.k = "fin" => /\ x.hi \in {-1, 0, 1}
                   /\ x.lo >= -MaxLo
                   /\ x.lo <= MaxLo

\* nearest multiple of q to l, ties to the multiple with an even quotient
\* (round-half-to-even on the significand)
RoundToMultiple(l, q) ==
    LET r == l % q
        base == l - r
    IN  IF 2 * r < q THEN base
        ELSE IF 2 * r > q THEN base + q
        ELSE IF (base \div q) % 2 = 0 THEN base ELSE base + q

\* the double nearest the real number h * 2^53 + l / 8, for h in -1..1:
\* below 2^52 dollars every eighth is a double; in [2^52, 2^53) doubles are
\* 1 dollar apart, in [2^53, 2^54) they are 2 dollars apart
RoundFloat(h, l) ==
    IF h = 0 THEN Fin(0, l)
    ELSE IF h > 0
         THEN Fin(h, RoundToMultiple(l, IF l < 0 THEN 8 ELSE 16))
         ELSE Fin(h, -RoundToMultiple(-l, IF l > 0 THEN 8 ELSE 16))

\* the real-number sum of two values, without rounding
ExactAdd(a, b) ==
    IF a.k = "nan" \/ b.k = "nan" THEN NaN
    ELSE IF a.k = "inf" /\ b.k = "inf"
         THEN IF a.hi = b.hi THEN a ELSE NaN
    ELSE IF a.k = "inf" THEN a
    ELSE IF b.k = "inf" THEN b
    ELSE Fin(a.hi + b.hi, a.lo + b.lo)

\* IEEE-754 double addition: a + b
FAdd(a, b) ==
    LET s == ExactAdd(a, b)
    IN  IF s.k = "fin" THEN RoundFloat(s.hi, s.lo) ELSE s

\* unary minus: -a
Neg(a) ==
    IF a.k = "nan" THEN NaN ELSE [k |-> a.k, hi |-> -a.hi, lo |-> -a.lo]

\* abs(a) of a numeric value
Abs(a) == IF a.k # "nan" /\ (a.hi < 0 \/ (a.hi = 0 /\ a.lo < 0)) THEN Neg(a) ELSE a

\* a < b on floats: every comparison with NaN is False
Lt(a, b) ==
    /\ a.k # "nan"
    /\ b.k # "nan"
    /\ IF a.k = "inf" THEN a.hi < 0 /\ b # a
       ELSE IF b.k = "inf" THEN b.hi > 0
       ELSE a.hi < b.hi \/ (a.hi = b.hi /\ a.lo < b.lo)

Gt(a, b) == Lt(b, a)

\* a >= b on floats
Ge(a, b) == a.k # "nan" /\ b.k # "nan" /\ ~Lt(a, b)

\* a < c / 100 for a threshold of c cents
LtCents(a, c) ==
    /\ a.k # "nan"
    /\ IF a.k = "inf" THEN a.hi < 0
       ELSE a.hi < 0 \/ (a.hi = 0 /\ 100 * a.lo < 8 * c)

\* a > c / 100 for a threshold of c cents
GtCents(a, c) ==
    /\ a.k # "nan"
    /\ IF a.k = "inf" THEN a.hi > 0
       ELSE a.hi > 0 \/ (a.hi = 0 /\ 100 * a.lo > 8 * c)

\* f"{x:,.2f}": the text of x to two decimals, as [k, hi, cents]: the
\* decimal hi * 2^53 + cents / 100, rounded half to even from the exact value
FormatMoney(x) ==
    IF x.k = "fin"
    THEN [k |-> "fin", hi |-> x.hi,
          cents |-> IF x.lo >= 0 THEN RoundToMultiple(25 * x.lo, 2) \div 2
                    ELSE -(RoundToMultiple(-25 * x.lo, 2) \div 2)]
    ELSE [k |-> x.k, hi |-> x.hi, cents |-> 0]


\* ---------------------------------------------------------------- messages
\* f"Low balance warning ${balance:,.2f}: on account {account_number}."
LowBalanceMessage(bal, acct) ==
    [kind |-> "low", amount |-> FormatMoney(bal), account |-> acct]

\* f"Large transaction ${amount:,.2f}: on account {account_number}."
LargeTransactionMessage(amount, acct) ==
    [kind |-> "large", amount |-> FormatMoney(amount), account |-> acct]

\* a message a caller passes to notify directly
TextMessage == [kind |-> "text", amount |-> FormatMoney(Zero), account |-> 0]

\* ------------------------------------------------------------------ inputs
Observers == {"o1", "o2"}
AccountNumbers == {1001}
InitBalances == {StrValue, Dollars(50), Dollars(10040), TwoTo53, Fin(0, -323)}
AmountInputs == {Zero, Fin(0, 3), Dollars(40), Dollars(10000), Dollars(-40),
                 NaN, PosInf, StrValue}
\* which callback invocation of a call raises, counted from 1 over the n
\* invocations the call makes when none raises; 0: none does
FailPoints(n) == 0 .. n

\* Subject.__init__: the observer list starts empty
Subject_init == << >>

\* BankAccount.__init__: float(balance) when numeric, else 0
InitialBalance(b) == IF IsNumeric(b) THEN b ELSE Zero

\* ------------------------------------------------------------------ notify
NoDelivery == [delivered |-> << >>, raised |-> FALSE]

\* notify with its entries visited last to first
Notify_Reversed(obs, message, failAt) ==
    LET n == IF failAt \in 1 .. Len(obs) THEN failAt ELSE Len(obs)
    IN  [delivered |-> [i \in 1 .. n |-> <<obs[Len(obs) + 1 - i], message>>],
         raised |-> failAt \in 1 .. Len(obs)]

\* notify that goes on to the remaining entries after a callback raised
Notify_KeepsGoing(obs, message, failAt) ==
    [delivered |-> [i \in 1 .. Len(obs) |-> <<obs[i], message>>],
     raised |-> failAt \in 1 .. Len(obs)]

\* for observer in self._observers: observer.update(message)
\* the failAt-th callback raises, which ends the loop
Notify(obs, message, failAt) ==
    LET n == IF failAt \in 1 .. Len(obs) THEN failAt ELSE Len(obs)
    IN  [delivered |-> [i \in 1 .. n |-> <<obs[i], message>>],
         raised |-> failAt \in 1 .. Len(obs)]

\* ---------------------------------------------------------- update_balance
\* the low-balance test made on the balance before the update
LowBalance_OldBalance(oldBal, newBal) == LtCents(oldBal, LOW_BALANCE_LEVEL)

\* if self.__balance < BankAccount.LOW_BALANCE_LEVEL
LowBalance(oldBal, newBal) == LtCents(newBal, LOW_BALANCE_LEVEL)

\* the large-transaction test without abs()
LargeTransaction_NoAbs(amount) == GtCents(amount, LARGE_TRANSACTION_THRESHOLD)

\* if abs(amount) > BankAccount.LARGE_TRANSACTION_THRESHOLD
LargeTransaction(amount) == GtCents(Abs(amount), LARGE_TRANSACTION_THRESHOLD)

\* update_balance with the large-transaction check ahead of the low-balance one
UpdateBalance_LargeFirst(bal, obs, acct, amount, failAt) ==
    LET newBal == IF IsNumeric(amount) THEN FAdd(amount, bal) ELSE bal
        large == IsNumeric(amount) /\ LargeTransaction(amount)
        largeMsg == LargeTransactionMessage(amount, acct)
        n1 == IF large THEN Notify(obs, largeMsg, failAt) ELSE NoDelivery
        sent1 == IF large THEN <<largeMsg>> ELSE << >>
        rest == IF failAt > Len(n1.delivered)
                THEN failAt - Len(n1.delivered) ELSE 0
        lowMsg == LowBalanceMessage(newBal, acct)
        n2 == Notify(obs, lowMsg, rest)
    IN  IF ~IsNumeric(amount)
        THEN [balance |-> newBal, notified |-> << >>,
              delivered |-> << >>, raised |-> "TypeError"]
        ELSE IF n1.raised
        THEN [balance |-> newBal, notified |-> sent1,
              delivered |-> n1.delivered, raised |-> "ObserverError"]
        ELSE IF LowBalance(bal, newBal)
        THEN [balance |-> newBal, notified |-> Append(sent1, lowMsg),
              delivered |-> n1.delivered \o n2.delivered,
              raised |-> IF n2.raised THEN "ObserverError" ELSE "none"]
        ELSE [balance |-> newBal, notified |-> sent1,
              delivered |-> n1.delivered, raised |-> "none"]

\* the body of update_balance: the new balance, the messages passed to
\* notify, the callbacks invoked, and the exception that leaves the call
UpdateBalance(bal, obs, acct, amount, failAt) ==
    LET newBal == IF IsNumeric(amount) THEN FAdd(amount, bal) ELSE bal
        low == LowBalance(bal, newBal)
        lowMsg == LowBalanceMessage(newBal, acct)
        n1 == IF low THEN Notify(obs, lowMsg, failAt) ELSE NoDelivery
        sent1 == IF low THEN <<lowMsg>> ELSE << >>
        rest == IF failAt > Len(n1.delivered)
                THEN failAt - Len(n1.delivered) ELSE 0
        largeMsg == LargeTransactionMessage(amount, acct)
        n2 == Notify(obs, largeMsg, rest)
    IN  IF n1.raised
        THEN [balance |-> newBal, notified |-> sent1,
              delivered |-> n1.delivered, raised |-> "ObserverError"]
        ELSE IF ~IsNumeric(amount)
        THEN [balance |-> newBal, notified |-> sent1,
              delivered |-> n1.delivered, raised |-> "TypeError"]
        ELSE IF LargeTransaction(amount)
        THEN [balance |-> newBal, notified |-> Append(sent1, largeMsg),
              delivered |-> n1.delivered \o n2.delivered,
              raised |-> IF n2.raised THEN "ObserverError" ELSE "none"]
        ELSE [balance |-> newBal, notified |-> sent1,
              delivered |-> n1.delivered, raised |-> "none"]

\* ------------------------------------------------------------- validation
\* deposit validation without the sign check
DepositRejects_NoSignCheck(amount) == ~IsNumeric(amount)

\* deposit raises ValueError: not numeric, or amount < 0
DepositRejects(amount) == ~IsNumeric(amount) \/ Lt(amount, Zero)

\* withdraw validation without the balance check
WithdrawRejects_NoBalanceCheck(bal, amount) ==
    ~IsNumeric(amount) \/ Lt(amount, Zero)

\* withdraw raises ValueError: not numeric, amount < 0, or amount > balance
WithdrawRejects(bal, amount) ==
    \/ ~IsNumeric(amount)
    \/ Lt(amount, Zero)
    \/ Gt(amount, bal)

\* ----------------------------------------------------------------- actions
Init ==
    /\ account_number \in AccountNumbers
    /\ \E b \in InitBalances :
          /\ balance = InitialBalance(b)
          /\ init_balance = InitialBalance(b)
          /\ ledger = InitialBalance(b)
    /\ observers = Subject_init
    /\ ntx = 0
    /\ last = [op |-> "init", arg |-> Zero, old |-> Zero, raised |-> "none",
               failAt |-> 0]
    /\ notified = << >>
    /\ delivered = << >>

\* last.failAt: the callback invocation of the call that raised, 0 if none

\* a call that raised ValueError before touching anything
Rejected(op, amount) ==
    /\ last' = [op |-> op, arg |-> amount, old |-> balance,
                raised |-> "ValueError", failAt |-> 0]
    /\ notified' = << >>
    /\ delivered' = << >>
    /\ UNCHANGED <<account_number, balance, observers, init_balance,
                   ledger, ntx>>

\* the callback invocations update_balance(delta) makes when none raises
Invocations(delta) ==
    Len(UpdateBalance(balance, observers, account_number, delta, 0).delivered)

\* a call that ran update_balance(delta), its failAt-th callback raising
Updated(op, amount, delta, failAt) ==
    LET r == UpdateBalance(balance, observers, account_number, delta, failAt)
        exact == IF IsNumeric(delta) THEN ExactAdd(ledger, delta) ELSE ledger
    IN  /\ ntx < MaxTx
        /\ InWindow(r.balance)
        /\ InWindow(exact)
        /\ balance' = r.balance
        /\ ledger' = exact
        /\ ntx' = ntx + 1
        /\ last' = [op |-> op, arg |-> amount, old |-> balance,
                    raised |-> r.raised,
                    failAt |-> IF r.raised = "ObserverError" THEN failAt ELSE 0]
        /\ notified' = r.notified
        /\ delivered' = r.delivered
        /\ UNCHANGED <<account_number, observers, init_balance>>

deposit(amount) ==
    IF DepositRejects(amount)
    THEN Rejected("deposit", amount)
    ELSE \E failAt \in FailPoints(Invocations(amount)) :
             Updated("deposit", amount, amount, failAt)

withdraw(amount) ==
    IF WithdrawRejects(balance, amount)
    THEN Rejected("withdraw", amount)
    ELSE \E failAt \in FailPoints(Invocations(Neg(amount))) :
             Updated("withdraw", amount, Neg(amount), failAt)

update_balance(amount) ==
    \E failAt \in FailPoints(Invocations(amount)) :
        Updated("update_balance", amount, amount, failAt)

attach(observer) ==
    /\ Len(observers) < MaxObservers
    /\ observers' = Append(observers, observer)
    /\ last' = [op |-> "attach", arg |-> Zero, old |-> balance,
                raised |-> "none", failAt |-> 0]
    /\ notified' = << >>
    /\ delivered' = << >>
    /\ UNCHANGED <<account_number, balance, init_balance, ledger, ntx>>

\* list.remove: drops the first equal entry, ValueError when there is none
RemoveFirst(obs, observer) ==
    LET i == CHOOSE j \in 1 .. Len(obs) :
                 obs[j] = observer /\ \A m \in 1 .. (j - 1) : obs[m] # observer
    IN  SubSeq(obs, 1, i - 1) \o SubSeq(obs, i + 1, Len(obs))

detach(observer) ==
    LET present == \E j \in 1 .. Len(observers) : observers[j] = observer
    IN  /\ observers' = IF present THEN RemoveFirst(observers, observer)
                        ELSE observers
        /\ last' = [op |-> "detach", arg |-> Zero, old |-> balance,
                    raised |-> IF present THEN "none" ELSE "ValueError",
                    failAt |-> 0]
        /\ notified' = << >>
        /\ delivered' = << >>
        /\ UNCHANGED <<account_number, balance, init_balance, ledger, ntx>>

notify(message, failAt) ==
    LET r == Notify(observers, message, failAt)
    IN  /\ last' = [op |-> "notify", arg |-> Zero, old |-> balance,
                    raised |-> IF r.raised THEN "ObserverError" ELSE "none",
                    failAt |-> IF r.raised THEN failAt ELSE 0]
        /\ notified' = <<message>>
        /\ delivered' = r.delivered
        /\ UNCHANGED <<account_number, balance, observers, init_balance,
                       ledger, ntx>>

DepositStep == \E a \in AmountInputs : deposit(a)
WithdrawStep == \E a \in AmountInputs : withdraw(a)
UpdateBalanceStep == \E a \in AmountInputs : update_balance(a)
AttachStep == \E o \in Observers : attach(o)
DetachStep == \E o \in Observers : detach(o)
NotifyStep == \E f \in FailPoints(Len(observers)) : notify(TextMessage, f)

Next ==
    \/ DepositStep
    \/ WithdrawStep
    \/ UpdateBalanceStep
    \/ AttachStep
    \/ DetachStep
    \/ NotifyStep

Spec == Init /\ [][Next]_vars

\* deposit and withdraw (and the observer operations) only
NextDW ==
    \/ DepositStep
    \/ WithdrawStep
    \/ AttachStep
    \/ DetachStep
    \/ NotifyStep

SpecDW == Init /\ [][NextDW]_vars

TypeOK ==
    /\ IsNumeric(balance)
    /\ InWindow(balance)
    /\ Len(observers) <= MaxObservers
    /\ ntx \in 0 .. MaxTx


\* ------------------------------------------------------------ observations
\* the last call ran update_balance
Reached ==
    /\ last.op \in {"deposit", "withdraw", "update_balance"}
    /\ last.raised # "ValueError"

\* the delta the last call passed to update_balance
Delta == IF last.op = "withdraw" THEN Neg(last.arg) ELSE last.arg

\* the positions of the messages of a kind among those passed to notify
Sent(kind) == {i \in DOMAIN notified : notified[i].kind = kind}

\* the positions of the callback invocations that got a message of a kind
Got(kind) == {i \in DOMAIN delivered : delivered[i][2].kind = kind}

\* a callback raised while the low-balance message was being delivered
RaisedDuringLow ==
    /\ last.raised = "ObserverError"
    /\ delivered # << >>
    /\ delivered[Len(delivered)][2].kind = "low"

\* one invocation per entry of the observer list, in list order
ToEveryObserver(message) ==
    [i \in 1 .. Len(observers) |-> <<observers[i], message>>]

\* ------------------------------------------------------------------ claims
\* C1: after any sequence of deposit and withdraw calls, balance equals the
\* balance at construction plus the accepted deposits minus the accepted
\* withdrawals (ledger holds that sum in exact arithmetic).
C1_BalanceIsExactSum == balance = ledger

\* C2: after a withdraw the balance is not below zero unless it was before,
\* and on an account constructed with balance >= 0, balance >= 0 always holds.
C2_BalanceNeverNegative ==
    /\ last.op = "withdraw" => (~Lt(balance, Zero) \/ Lt(last.old, Zero))
    /\ Ge(init_balance, Zero) => Ge(balance, Zero)

\* C3: deposit of a negative or non-numeric amount raises ValueError and
\* leaves the balance unchanged (and notifies nobody).
C3_DepositRejectsInvalid ==
    (last.op = "deposit" /\ (~IsNumeric(last.arg) \/ Lt(last.arg, Zero)))
        => /\ last.raised = "ValueError"
           /\ balance = last.old
           /\ notified = << >>
           /\ delivered = << >>

C3_Witness ==
    /\ last.op = "deposit"
    /\ last.arg = Dollars(-40)
    /\ last.raised = "ValueError"
    /\ balance = Dollars(50)

\* C4: withdraw of an amount greater than the current balance raises
\* ValueError and leaves the balance unchanged.
C4_WithdrawRejectsOverdraft ==
    (last.op = "withdraw" /\ IsNumeric(last.arg) /\ Gt(last.arg, last.old))
        => /\ last.raised = "ValueError"
           /\ balance = last.old
           /\ notified = << >>
           /\ delivered = << >>

C4_Witness ==
    /\ last.op = "withdraw"
    /\ last.arg = Dollars(10000)
    /\ last.old = Dollars(50)
    /\ last.raised = "ValueError"
    /\ balance = Dollars(50)

\* C5: after any update, a low-balance notification fires exactly once when
\* the new balance is below 50.0 and not at all otherwise; it is the first
\* message of the call, carries the new balance and the account number, and
\* goes to the observers in list order (to all of them unless one raises).
C5_LowBalanceNotification ==
    Reached =>
        IF LtCents(balance, LOW_BALANCE_LEVEL)
        THEN /\ Cardinality(Sent("low")) = 1
             /\ notified[1].kind = "low"
             /\ notified[1].amount = FormatMoney(balance)
             /\ notified[1].account = account_number
             /\ LET k == Cardinality(Got("low"))
                IN  /\ k <= Len(observers)
                    /\ SubSeq(delivered, 1, k)
                           = SubSeq(ToEveryObserver(notified[1]), 1, k)
                    /\ ~RaisedDuringLow => k = Len(observers)
        ELSE Sent("low") = {} /\ Got("low") = {}

C5_Witness ==
    /\ last.op = "withdraw"
    /\ last.old = Dollars(50)
    /\ last.arg = Dollars(40)
    /\ balance = Dollars(10)
    /\ Cardinality(Sent("low")) = 1

\* C6 as stated: after any update with abs(delta) > 9999.99 exactly one
\* large-transaction notification fires, carrying the delta and the account
\* number.
C6_LargeAlwaysFires ==
    (Reached /\ IsNumeric(Delta)
        /\ GtCents(Abs(Delta), LARGE_TRANSACTION_THRESHOLD))
        => /\ Cardinality(Sent("large")) = 1
           /\ \A i \in Sent("large") :
                 /\ notified[i].amount = FormatMoney(Delta)
                 /\ notified[i].account = account_number

\* C6 amended: after any update with abs(delta) > 9999.99, unless a callback
\* raised during the low-balance notification of the same call, exactly one
\* large-transaction notification fires, carrying the delta and the account
\* number; when such a callback raised, or abs(delta) <= 9999.99, none fires.
C6_LargeTransactionNotification ==
    (Reached /\ IsNumeric(Delta)) =>
        IF GtCents(Abs(Delta), LARGE_TRANSACTION_THRESHOLD) /\ ~RaisedDuringLow
        THEN /\ Cardinality(Sent("large")) = 1
             /\ \A i \in Sent("large") :
                   /\ notified[i].amount = FormatMoney(Delta)
                   /\ notified[i].account = account_number
        ELSE Sent("large") = {}

C6_Witness ==
    /\ last.op = "withdraw"
    /\ last.arg = Dollars(10000)
    /\ last.old = Dollars(10040)
    /\ last.raised = "none"
    /\ Cardinality(Sent("large")) = 1

\* C7 as stated: notify invokes the callback once per entry of the observer
\* list, in insertion order, each with the same message.
C7_NotifyReachesEveryEntry ==
    last.op = "notify" => delivered = ToEveryObserver(TextMessage)

\* C7 amended: notify invokes the callbacks in insertion order, one per entry
\* and each with the same message, up to and including the first entry whose
\* callback raises; when none raises, every entry is invoked once, so an
\* observer attached twice gets two deliveries.
C7_NotifyInOrderUntilRaise ==
    last.op = "notify" =>
        /\ Len(delivered) <= Len(observers)
        /\ delivered = SubSeq(ToEveryObserver(TextMessage), 1, Len(delivered))
        /\ last.raised = "none" => Len(delivered) = Len(observers)
        /\ last.raised = "ObserverError" => Len(delivered) = last.failAt

C7_Witness ==
    /\ last.op = "notify"
    /\ last.raised = "none"
    /\ observers = <<"o2", "o1">>
    /\ delivered = <<<<"o2", TextMessage>>, <<"o1", TextMessage>>>>

\* C8: update_balance called directly with a non-numeric delta is silently
\* ignored: no error, no mutation, no notification.
C8_NonNumericDeltaIgnored ==
    (last.op = "update_balance" /\ ~IsNumeric(last.arg))
        => /\ last.raised = "none"
           /\ balance = last.old
           /\ notified = << >>

\* C9 as stated: an update with new balance < 50.0 and abs(delta) > 9999.99
\* fires both notifications, every observer gets the low-balance message
\* before any gets the large-transaction message, and for any update each
\* notification fires exactly when its own condition holds.
C9_BothAlwaysFire ==
    (Reached /\ IsNumeric(Delta)) =>
        /\ (Sent("low") # {}) = LtCents(balance, LOW_BALANCE_LEVEL)
        /\ (Sent("large") # {})
               = GtCents(Abs(Delta), LARGE_TRANSACTION_THRESHOLD)
        /\ (Sent("low") # {} /\ Sent("large") # {}) =>
               /\ Len(notified) = 2
               /\ SubSeq(delivered, 1, Len(observers))
                      = ToEveryObserver(notified[1])
               /\ \A i \in Got("low"), j \in Got("large") : i < j

\* C9 amended: an update with new balance < 50.0 and abs(delta) > 9999.99
\* fires the low-balance notification first and, unless a callback raises
\* during it, the large-transaction notification after it: then every
\* observer gets the low-balance message before any gets the
\* large-transaction message.  For any update the low-balance notification
\* fires exactly when the new balance is < 50.0, and the large-transaction
\* notification exactly when abs(delta) > 9999.99 and no callback raised
\* during the low-balance notification.
C9_LowThenLarge ==
    (Reached /\ IsNumeric(Delta)) =>
        /\ (Sent("low") # {}) = LtCents(balance, LOW_BALANCE_LEVEL)
        /\ (Sent("large") # {})
               = (GtCents(Abs(Delta), LARGE_TRANSACTION_THRESHOLD)
                    /\ ~RaisedDuringLow)
        /\ (Sent("low") # {} /\ Sent("large") # {}) =>
               /\ Len(notified) = 2
               /\ notified[1].kind = "low"
               /\ notified[2].kind = "large"
               /\ Len(delivered) >= Len(observers)
               /\ SubSeq(delivered, 1, Len(observers))
                      = ToEveryObserver(notified[1])
               /\ \A i \in Got("low"), j \in Got("large") : i < j

C9_Witness ==
    /\ last.op = "withdraw"
    /\ last.old = Dollars(10040)
    /\ last.arg = Dollars(10000)
    /\ balance = Dollars(40)
    /\ Len(observers) = 2
    /\ Len(notified) = 2
    /\ Cardinality(Got("low")) = 2
    /\ Cardinality(Got("large")) = 2

\* C10: when a callback raises during a deposit or withdraw that passed
\* validation, the exception reaches the caller, the raising invocation is
\* the last one made (no later observer is invoked, and a large-transaction
\* notification still pending is not sent), and the balance keeps the
\* updated value.
C10_ObserverErrorPropagates ==
    (last.op \in {"deposit", "withdraw"} /\ last.raised = "ObserverError") =>
        /\ last.failAt > 0
        /\ Len(delivered) = last.failAt
        /\ delivered[Len(delivered)][2] = notified[Len(notified)]
        /\ RaisedDuringLow => Sent("large") = {}
        /\ balance = FAdd(Delta, last.old)

C10_Witness ==
    /\ last.op = "withdraw"
    /\ last.old = Dollars(10040)
    /\ last.arg = Dollars(10000)
    /\ last.raised = "ObserverError"
    /\ balance = Dollars(40)
    /\ Len(observers) = 2
    /\ Len(delivered) = 1
    /\ notified = <<LowBalanceMessage(Dollars(40), account_number)>>

====
